---- MODULE Spec2Model ----
(***************************************************************************)
(* Real-time collaboration channel of the design server:                   *)
(*                                                                         *)
(*   io.on('connection', (socket) => {                                     *)
(*     socket.on('join-project', (projectId) => { socket.join(projectId) })*)
(*     socket.on('design-update', (data) => {                              *)
(*       socket.to(data.projectId).emit('design-update', data) })          *)
(*     socket.on('disconnect', () => { log only })                         *)
(*   })                                                                    *)
(*                                                                         *)
(* The server keeps no state of its own: all of it lives in the socket.io  *)
(* Server object `io` (the namespace's socket map and the adapter's rooms  *)
(* and sids maps).  The handlers run one at a time on the Node event loop, *)
(* so every handler is one atomic action.                                  *)
(*                                                                         *)
(* Rooms are the project rooms clients name in join-project.  The private  *)
(* room socket.io gives every socket under its own id is left out: no      *)
(* handler joins or leaves it, and it is deleted with its socket.          *)
(*                                                                         *)
(* The second half of the module is the browser side: the React components *)
(* Dashboard, SketchEditor, SimpleDrawingCanvas and Simple3DViewer and the *)
(* loading flags of the pages.  A component's state is its useState hooks; *)
(* an event handler is one action up to its first await and a second one   *)
(* when the awaited request settles.  Server and browser are followed in   *)
(* specifications of their own, each leaving the other's variables alone.  *)
(***************************************************************************)
EXTENDS Integers, Sequences, FiniteSets, TLC

\* ------------------------------------------------------------------------
\* Bounds and input sets
\* ------------------------------------------------------------------------

\* socket ids; socket.io generates a fresh id per connection, never reused
ConnIds == {"c1", "c2", "c3"}

\* the projectId values clients send in join-project and in data.projectId
ProjectIds == {"P1", "P2"}


\* what each client presents in the socket.io handshake (socket.handshake.auth):
\* "valid" are credentials an authenticator would accept, "invalid" ones it
\* would reject.  c1 and c2 are clients with an account, c3 has none.
HandshakeAuth(c) == IF c = "c3" THEN "invalid" ELSE "valid"

\* number of design-update events recorded in the history `log`
MaxLog == 2

\* JavaScript `undefined`: the value of a field the object does not have
Undefined == -1

\* the objects clients send as `data` with a design-update: the project the
\* update is for and the rest of the object, which the server never inspects
DataObjects == {[projectId |-> "P1", payload |-> "X"],
                [projectId |-> "P2", payload |-> "Y"]}

\* ------------------------------------------------------------------------
\* State
\* ------------------------------------------------------------------------
VARIABLES
    sockets,    \* io.sockets.sockets: ids of the connected sockets
    closed,     \* ids of sockets that have disconnected (ids are not reused)
    rooms,      \* io.sockets.adapter.rooms: Map room -> Set of socket ids
    sids,       \* io.sockets.adapter.sids (socket.rooms): socket -> rooms
    log,        \* history: one entry per design-update event handled, with
                \* the room's members at that moment, the sockets the event
                \* was emitted to and what was emitted back to the sender
    stale,      \* connected sockets whose transport is dead, which the server
                \* has not noticed yet (it notices by the heartbeat timeout)
    inbox,      \* per socket, the packets that reached its client, in order
    \* --- client: Dashboard (src/Dashboard.js) ---
    db,                 \* ids of the projects stored on the server
    gone,               \* ids of deleted projects (ids are never reused)
    projects,           \* useState([]): the loaded list, as a list of ids
    filteredProjects,   \* useState([]): the list the page displays
    selectedProjects,   \* useState([]): the ids ticked for a bulk action
    bulkAction,         \* useState(''): the bulk action picked in the select
    filters,            \* useState({...}): the category filter
    sortOrder,          \* useState('desc')
    fetches,            \* list requests in flight, with the query they carry
    ops,                \* create/duplicate/delete/bulk handlers waiting for
                        \* their request, with the state they closed over
    toast,              \* the kind of the last toast shown (toast.success
                        \* or toast.error), "none" before the first
    \* --- client: loading flags of the pages ---
    loading,            \* per page component, useState(true)
    pageFetches,        \* per page component, fetches in flight
    \* --- client: SketchEditor and SimpleDrawingCanvas ---
    showSketchEditor,   \* DesignPage: the SketchEditor modal is mounted
    sketchLoading,      \* SketchEditor: useState(false)
    sketchData,         \* SketchEditor: sketchData?.canvas, the canvas as last saved
    saves,              \* PUT /api/sketches/:id requests in flight
    canvasReadOnly,     \* SimpleDrawingCanvas: prop readOnly
    isDrawing,          \* SimpleDrawingCanvas: useState(false)
    selectedTool,       \* SimpleDrawingCanvas: useState('pen')
    ink,                \* what is painted on the <canvas> element
    \* --- client: Simple3DViewer ---
    viewerReadOnly,     \* prop readOnly
    rotation,           \* useState({x: 0, y: 0})
    zoom,               \* useState(1), in hundredths
    isDragging,         \* useState(false)
    dragStart,          \* useState({x: 0, y: 0})
    lastEvent           \* the last event delivered to the canvas or the viewer

relayVars == <<sockets, closed, rooms, sids, log, stale, inbox>>

dashVars == <<db, gone, projects, filteredProjects, selectedProjects, bulkAction,
              filters, sortOrder, fetches, ops, toast>>

pageVars == <<loading, pageFetches>>

sketchVars == <<showSketchEditor, sketchLoading, sketchData, saves>>

canvasVars == <<canvasReadOnly, isDrawing, selectedTool, ink>>

viewerVars == <<viewerReadOnly, rotation, zoom, isDragging, dragStart>>

\* everything that lives in the browser
clientVars == <<dashVars, pageVars, sketchVars, canvasVars, viewerVars, lastEvent>>

vars == <<relayVars, clientVars>>

\* ------------------------------------------------------------------------
\* socket.io primitives used by the handlers
\* ------------------------------------------------------------------------

\* members of a room; a room that is not a key of the map has none
Members(rs, room) == IF room \in DOMAIN rs THEN rs[room] ELSE {}

\* socket.join(room): the adapter creates the room if absent and adds the id;
\* no other room of the socket is touched
AdapterAdd(rs, id, room) ==
    [r \in DOMAIN rs \cup {room} |-> IF r = room THEN Members(rs, r) \cup {id}
                                                ELSE rs[r]]

\* a cleanup that leaves one room only (the "current" one) instead of all
AdapterDelOne(rs, id) ==
    LET mine == {q \in DOMAIN rs : id \in rs[q]}
        one  == IF mine = {} THEN {} ELSE {CHOOSE q \in mine : TRUE}
    IN  [r \in {q \in DOMAIN rs : q \notin one \/ rs[q] # {id}} |->
            IF r \in one THEN rs[r] \ {id} ELSE rs[r]]

\* on disconnect socket.io removes the id from every room and deletes the
\* rooms that become empty
AdapterDelAll(rs, id) ==
    [r \in {q \in DOMAIN rs : rs[q] \ {id} # {}} |-> rs[r] \ {id}]

\* io.to(room).emit(...) in place of socket.to(room).emit(...): the sender,
\* when it is in the room, gets its own event back
BroadcastTargetsIo(rs, room, sender) == Members(rs, room)

\* socket.to(room).emit(...): every socket in the room except the sender
BroadcastTargets(rs, room, sender) == Members(rs, room) \ {sender}

\* a relay that builds the outgoing object by string concatenation
RelayedStringified(data) == [data EXCEPT !.payload = "[object Object]"]

\* the 'design-update' event the server emits carries the client's data
\* object itself: nothing is added, removed or rewritten
Relayed(data) == data

\* the targets of an emit that stops at the first socket it cannot write to
DeliveredToAbort(targets) == IF targets \cap stale = {} THEN targets ELSE {}

\* the targets an emitted packet reaches: socket.io writes the packet to every
\* target socket in turn; a write to a socket whose transport is dead is
\* buffered and dropped without an error and stops nothing
DeliveredTo(targets) == targets \ stale

\* a client that gets the newest packet ahead of the ones still queued
EnqueueFront(q, pkt) == <<pkt>> \o q

\* packets written to one socket reach its client in the order of the writes
Enqueue(q, pkt) == Append(q, pkt)

\* value of the `sequence` field of a relayed message
SequenceOf(msg) == IF "sequence" \in DOMAIN msg THEN msg.sequence ELSE Undefined

\* ------------------------------------------------------------------------
\* Client: input sets and initial state of the React components
\* ------------------------------------------------------------------------

\* project ids the server hands out, in the order it creates them; the
\* updatedAt order of the projects is the order of their ids
ProjectKeys == {1, 2, 3}

\* the projects stored when the Dashboard is opened
StoredProjects == {1, 2}

\* category of a project (a field of the project document)
Category(k) == IF k % 2 = 1 THEN "residential" ELSE "commercial"

\* values of the category <select>; '' is "All Categories"
CategoryFilters == {"", "commercial"}

\* values of the bulk action <select> the model uses; 'activate' runs the
\* same code as 'archive' with another status value
BulkActions == {"", "delete", "archive"}

\* requests one component has waiting at one time
MaxPending == 2

\* the query string fetchDashboardData builds from the state it closes over
Query(f, order) == [category |-> f, sortOrder |-> order]

\* page components with a loading flag; the last three keep only a count of
\* their fetches in flight, the Dashboard's are in `fetches`
Pages == {"Dashboard", "ProjectPage", "DesignPage", "EnhancedComments"}

OtherPages == Pages \ {"Dashboard"}

\* canvas data: the picture, or undefined for a sketch never saved
CanvasData(cells) == [undefined |-> FALSE, cells |-> cells]

\* sketchData === null: sketchData?.canvas is undefined
NoSketch == [undefined |-> TRUE, cells |-> {}]

\* positions of the pointer over the <canvas> (getMousePos), one per cell
Cells == {1, 2}

\* clientX / clientY of the mouse events over the viewer
Coords == {0, 2}

\* rotation angles and zoom factors (in hundredths) the model follows: one
\* degree around the initial view and around the view Reset View sets
AnglesX == (-1 .. 1) \cup (19 .. 21)

AnglesY == (-1 .. 1) \cup (44 .. 46)

ZoomRange == 81 .. 121

\* Math.max(0.1, Math.min(3, ...)), in hundredths
ZoomMin == 10

ZoomMax == 300

DashInit ==
    /\ db = StoredProjects
    /\ gone = {}
    /\ projects = <<>>
    /\ filteredProjects = <<>>
    /\ selectedProjects = <<>>
    /\ bulkAction = ""
    /\ filters = ""
    /\ sortOrder = "desc"
    /\ fetches = <<Query("", "desc")>>
    /\ ops = <<>>
    /\ toast = "none"

\* every page mounts with loading = true and its first fetch sent
PageInit ==
    /\ loading = [p \in Pages |-> TRUE]
    /\ pageFetches = [p \in OtherPages |-> 1]

SketchInit(stored) ==
    /\ showSketchEditor = TRUE
    /\ sketchLoading = FALSE
    /\ sketchData = stored
    /\ saves = <<>>

CanvasInit(ro) ==
    /\ canvasReadOnly = ro
    /\ isDrawing = FALSE
    /\ selectedTool = "pen"
    /\ ink = {}

ViewerInit(ro) ==
    /\ viewerReadOnly = ro
    /\ rotation = [x |-> 0, y |-> 0]
    /\ zoom = 100
    /\ isDragging = FALSE
    /\ dragStart = [x |-> 0, y |-> 0]

\* the components as the repository mounts them: readOnly={false}
ClientInit ==
    /\ DashInit
    /\ PageInit
    /\ SketchInit(NoSketch)
    /\ CanvasInit(FALSE)
    /\ ViewerInit(FALSE)
    /\ lastEvent = "none"

\* ------------------------------------------------------------------------
\* Initial state: server started, nobody connected
\* ------------------------------------------------------------------------
RelayInit ==
    /\ sockets = {}
    /\ closed = {}
    /\ rooms = <<>>
    /\ sids = [c \in ConnIds |-> {}]
    /\ log = <<>>
    /\ stale = {}
    /\ inbox = [c \in ConnIds |-> <<>>]

Init ==
    /\ RelayInit
    /\ ClientInit

\* ------------------------------------------------------------------------
\* Handlers
\* ------------------------------------------------------------------------

\* io.on('connection'): no middleware is installed with io.use, so every
\* handshake is accepted whatever credentials it carries
Connect(c) ==
    /\ c \notin sockets \cup closed
    /\ HandshakeAuth(c) \in {"valid", "invalid"}
    /\ sockets' = sockets \cup {c}
    /\ UNCHANGED <<closed, rooms, sids, log, stale, inbox>>
    /\ UNCHANGED clientVars

\* socket.on('join-project', projectId => socket.join(projectId))
JoinProject(c, projectId) ==
    /\ c \in sockets \ stale
    /\ rooms' = AdapterAdd(rooms, c, projectId)
    /\ sids' = [sids EXCEPT ![c] = @ \cup {projectId}]
    /\ UNCHANGED <<sockets, closed, log, stale, inbox>>
    /\ UNCHANGED clientVars

\* a design-update handler that first puts the sender into the room it names
DesignUpdateAutoJoin(c, data) ==
    /\ c \in sockets \ stale
    /\ Len(log) < MaxLog
    /\ log' = Append(log, [sender  |-> c,
                           room    |-> data.projectId,
                           sent    |-> data,
                           members |-> Members(rooms, data.projectId),
                           to      |-> BroadcastTargets(rooms, data.projectId, c),
                           failed  |-> {},
                           got     |-> {},
                           msg     |-> Relayed(data),
                           reply   |-> "none"])
    /\ rooms' = AdapterAdd(rooms, c, data.projectId)
    /\ sids' = [sids EXCEPT ![c] = @ \cup {data.projectId}]
    /\ UNCHANGED <<sockets, closed, stale, inbox>>
    /\ UNCHANGED clientVars

\* socket.on('design-update', data => socket.to(data.projectId).emit(...))
\* The handler emits nothing back to the sender.
DesignUpdate(c, data) ==
    LET targets == BroadcastTargets(rooms, data.projectId, c)
        pkt     == [event |-> "design-update",
                    data  |-> Relayed(data),
                    emit  |-> Len(log) + 1]
    IN  /\ c \in sockets \ stale
        /\ Len(log) < MaxLog
        /\ log' = Append(log, [sender  |-> c,
                               room    |-> data.projectId,
                               sent    |-> data,
                               members |-> Members(rooms, data.projectId),
                               to      |-> targets,
                               failed  |-> targets \cap stale,
                               got     |-> DeliveredTo(targets),
                               msg     |-> Relayed(data),
                               reply   |-> "none"])
        /\ inbox' = [m \in ConnIds |->
                        IF m \in DeliveredTo(targets) THEN Enqueue(inbox[m], pkt)
                                                      ELSE inbox[m]]
        /\ UNCHANGED <<sockets, closed, rooms, sids, stale>>
        /\ UNCHANGED clientVars

\* the transport of a connected socket dies (network drop, client killed)
\* without a close frame: nothing is handled, and from now on the server
\* receives no event from this socket
GoStale(c) ==
    /\ c \in sockets \ stale
    /\ stale' = stale \cup {c}
    /\ UNCHANGED <<sockets, closed, rooms, sids, log, inbox>>
    /\ UNCHANGED clientVars

\* the registry and the rooms as a record, and what the close of socket c
\* makes of them: the socket is dropped from the socket map, from every room
\* and from the stale set; all of it is removal from sets and maps
Registry == [sockets |-> sockets, rooms |-> rooms, sids |-> sids, stale |-> stale]

\* an unregister that leaves one room per call instead of all of them
UnregisterOneRoom(st, c) ==
    [sockets |-> st.sockets \ {c},
     rooms   |-> AdapterDelOne(st.rooms, c),
     sids    |-> [st.sids EXCEPT ![c] = {}],
     stale   |-> st.stale \ {c}]

\* the close of socket c applied to a registry record
Unregister(st, c) ==
    [sockets |-> st.sockets \ {c},
     rooms   |-> AdapterDelAll(st.rooms, c),
     sids    |-> [st.sids EXCEPT ![c] = {}],
     stale   |-> st.stale \ {c}]

\* a close that unregisters the socket and leaves its memberships behind
DisconnectKeepRooms(c) ==
    /\ c \in sockets
    /\ sockets' = sockets \ {c}
    /\ closed' = closed \cup {c}
    /\ stale' = stale \ {c}
    /\ UNCHANGED <<rooms, sids, log, inbox>>
    /\ UNCHANGED clientVars

\* transport close (a close frame, or the heartbeat timeout of a stale
\* socket): socket.io leaves all rooms and removes the socket before it fires
\* 'disconnect'; the handler itself only logs
Disconnect(c) ==
    /\ c \in sockets
    /\ sockets' = Unregister(Registry, c).sockets
    /\ closed' = closed \cup {c}
    /\ rooms' = Unregister(Registry, c).rooms
    /\ sids' = Unregister(Registry, c).sids
    /\ stale' = Unregister(Registry, c).stale
    /\ UNCHANGED <<log, inbox>>
    /\ UNCHANGED clientVars

Next ==
    \/ \E c \in ConnIds : Connect(c)
    \/ \E c \in ConnIds, p \in ProjectIds : JoinProject(c, p)
    \/ \E c \in ConnIds, d \in DataObjects : DesignUpdate(c, d)
    \/ \E c \in ConnIds : Disconnect(c)

Spec == Init /\ [][Next]_vars

\* The same server with transports that can die silently, over one project.
StaleProjects == {"P1"}

NextStale ==
    \/ \E c \in ConnIds : Connect(c)
    \/ \E c \in ConnIds, p \in StaleProjects : JoinProject(c, p)
    \/ \E c \in ConnIds, d \in {x \in DataObjects : x.projectId \in StaleProjects} :
            DesignUpdate(c, d)
    \/ \E c \in ConnIds : GoStale(c)
    \/ \E c \in ConnIds : Disconnect(c)

SpecStale == Init /\ [][NextStale]_vars

TypeOK ==
    /\ sockets \subseteq ConnIds
    /\ closed \subseteq ConnIds
    /\ DOMAIN rooms \subseteq ProjectIds
    /\ Len(log) <= MaxLog
    /\ stale \subseteq sockets
    /\ \A c \in ConnIds : Len(inbox[c]) <= Len(log)

\* ------------------------------------------------------------------------
\* Helpers for the properties
\* ------------------------------------------------------------------------

\* the rooms a socket is a member of, read off the adapter's room map
RoomsOf(c) == {r \in DOMAIN rooms : c \in rooms[r]}

LogIdx == 1..Len(log)

\* the submission was made by a member of the room it names
ByMember(e) == e.sender \in e.members

\* the design-updates of one room that came from a member, in order
Accepted(room) == SelectSeq(log, LAMBDA e : e.room = room /\ ByMember(e))

\* the design-updates of one room that were emitted to socket c, in order
Received(c, room) == SelectSeq(log, LAMBDA e : e.room = room /\ c \in e.to)

\* ------------------------------------------------------------------------
\* C1: a connection is a member of at most one room; a join to room B while
\* a member of room A removes it from A.
\* ------------------------------------------------------------------------
C1_AtMostOneRoom == \A c \in ConnIds : Cardinality(RoomsOf(c)) <= 1

\* ------------------------------------------------------------------------
\* C2: a design-update for room R from a connection that is not a member of
\* R is rejected: the sender gets NotInRoom and nobody gets the update.
\* ------------------------------------------------------------------------
C2_NonMemberRejected ==
    \A i \in LogIdx :
        ~ByMember(log[i]) => log[i].reply = "NotInRoom" /\ log[i].to = {}

\* ------------------------------------------------------------------------
\* C3: a design-update sent by member S of room R is delivered to exactly the
\* members of R at that moment minus S.
\* ------------------------------------------------------------------------
C3_DeliveredToOthersInRoom ==
    \A i \in LogIdx :
        ByMember(log[i]) => log[i].to = log[i].members \ {log[i].sender}

\* a member's update reached another member while a third socket, not in the
\* room, got nothing
C3_Witness ==
    \E i \in LogIdx :
        /\ ByMember(log[i])
        /\ log[i].to # {}
        /\ \E c \in sockets \ log[i].members : RoomsOf(c) # {}

\* ------------------------------------------------------------------------
\* C4: every relayed design-update carries a per-room sequence number given
\* by the relay: 1 for the first accepted submission in a room, then the
\* previous number plus 1 (or 1 again once the room was deleted and created
\* anew).
\* ------------------------------------------------------------------------
C4_SequenceStamped ==
    \A room \in ProjectIds :
        LET acc == Accepted(room)
        IN  /\ Len(acc) > 0 => SequenceOf(acc[1].msg) = 1
            /\ \A k \in 1..(Len(acc) - 1) :
                  SequenceOf(acc[k + 1].msg) \in {SequenceOf(acc[k].msg) + 1, 1}

\* ------------------------------------------------------------------------
\* C5: the sequence numbers a member receives in a room are strictly
\* increasing in delivery order, and two consecutive ones differ by more
\* than 1 only when a submission to the room was rejected in between.
\* ------------------------------------------------------------------------
C5_ReceivedIncreasing ==
    \A c \in ConnIds, room \in ProjectIds :
        LET rec == Received(c, room)
        IN  \A k \in 1..(Len(rec) - 1) :
                /\ SequenceOf(rec[k].msg) < SequenceOf(rec[k + 1].msg)
                /\ SequenceOf(rec[k + 1].msg) - SequenceOf(rec[k].msg) > 1
                      => \E i \in LogIdx : log[i].room = room
                                            /\ log[i].reply = "NotInRoom"

\* ------------------------------------------------------------------------
\* C6: handling a disconnect removes the connection from its rooms in that
\* same step (right after it the connection is in no member set), and no
\* design-update submitted afterwards is delivered to it.
\* ------------------------------------------------------------------------
C6_DisconnectLeavesRooms ==
    [][ /\ \A c \in closed' : \A r \in DOMAIN rooms' : c \notin rooms'[r]
        /\ Len(log') > Len(log) => log'[Len(log')].to \cap closed = {}
      ]_vars

\* c got an update of a room as a member, disconnected, and a later update
\* of the same room went to the remaining members only
C6_Witness ==
    \E c \in closed : \E i, j \in LogIdx :
        /\ i < j
        /\ log[i].room = log[j].room
        /\ c \in log[i].to
        /\ log[j].to # {}
        /\ c \notin log[j].to

\* ------------------------------------------------------------------------
\* C7: no room with an empty member set exists; a room is deleted with its
\* sequence counter when its last member goes, and a room created by a join
\* starts at lastSequence 0, so that its first update is stamped 1.
\* ------------------------------------------------------------------------
C7_NoEmptyRoomFreshCounter ==
    /\ \A r \in DOMAIN rooms : rooms[r] # {}
    /\ \A i \in LogIdx :
          (ByMember(log[i]) /\ \A j \in 1..(i - 1) : log[j].room # log[i].room)
              => SequenceOf(log[i].msg) = 1

\* ------------------------------------------------------------------------
\* C8: the member set of every room is a subset of the live connections.
\* ------------------------------------------------------------------------
C8_MembersAreLive == \A r \in DOMAIN rooms : rooms[r] \subseteq sockets

\* a socket that was a member of two rooms has disconnected and both rooms
\* still exist for their other members
C8_Witness ==
    \E c \in closed : \E i, j \in LogIdx :
        /\ log[i].room # log[j].room
        /\ c \in log[i].members /\ c \in log[j].members
        /\ {log[i].room, log[j].room} \subseteq DOMAIN rooms

\* ------------------------------------------------------------------------
\* C9: for every live connection c, c.currentRoom is null or the id of an
\* existing room whose member set contains c.  The connection's own record
\* of its rooms is socket.rooms (sids).
\* ------------------------------------------------------------------------
C9_CurrentRoomConsistent ==
    \A c \in sockets :
        \/ sids[c] = {}
        \/ \E r \in DOMAIN rooms : sids[c] = {r} /\ c \in rooms[r]

\* ------------------------------------------------------------------------
\* C10: no room operation is performed for a connection whose handshake was
\* not authenticated: its joins change no membership and its design-updates
\* are delivered to nobody.
\* ------------------------------------------------------------------------
C10_AuthenticatedBeforeRoomOps ==
    /\ \A r \in DOMAIN rooms : \A c \in rooms[r] : HandshakeAuth(c) = "valid"
    /\ \A i \in LogIdx : HandshakeAuth(log[i].sender) # "valid" => log[i].to = {}

\* ------------------------------------------------------------------------
\* Helpers for the properties of steps
\* ------------------------------------------------------------------------

\* the gateway state of a connection, read off the server's state.  A socket
\* that is open although its handshake carried credentials no authenticator
\* accepts is in none of the four states of the gateway.
GatewayState(c) ==
    IF c \in closed THEN "CLOSED"
    ELSE IF c \notin sockets THEN "CONNECTING"
    ELSE IF HandshakeAuth(c) # "valid" THEN "OPEN_UNAUTHENTICATED"
    ELSE IF sids[c] = {} THEN "AUTHENTICATED"
    ELSE "JOINED"

GatewayMoves ==
    {<<"CONNECTING", "AUTHENTICATED">>, <<"CONNECTING", "CLOSED">>,
     <<"AUTHENTICATED", "JOINED">>, <<"AUTHENTICATED", "CLOSED">>,
     <<"JOINED", "JOINED">>, <<"JOINED", "CLOSED">>}

\* this step handled a design-update
Submitted == Len(log') = Len(log) + 1

\* this step handled a design-update of a socket that is not in the room
SubmittedByNonMember == Submitted /\ ~ByMember(log'[Len(log')])

\* socket m got one more packet in this step, of this event, room and socket
Notified(m, event, room, c) ==
    /\ Len(inbox'[m]) = Len(inbox[m]) + 1
    /\ inbox'[m][Len(inbox'[m])].event = event
    /\ inbox'[m][Len(inbox'[m])].data = [roomId |-> room, connectionId |-> c]

\* ------------------------------------------------------------------------
\* C11: the gateway state of a connection only moves along CONNECTING ->
\* AUTHENTICATED -> JOINED -> CLOSED (JOINED -> JOINED on re-join, any state
\* -> CLOSED), and CLOSED is terminal: a closed connection stays closed, is
\* never a room member again and no packet goes to or comes from it.
\* ------------------------------------------------------------------------
C11_ClosedIsTerminal ==
    [][ \A c \in closed :
          /\ c \in closed'
          /\ \A r \in DOMAIN rooms' : c \notin rooms'[r]
          /\ inbox'[c] = inbox[c]
          /\ Submitted => log'[Len(log')].sender # c
      ]_vars

C11_GatewayStateMachine ==
    [][ \A c \in ConnIds :
          /\ GatewayState(c)' # GatewayState(c)
                => <<GatewayState(c), GatewayState(c)'>> \in GatewayMoves
          /\ c \in closed =>
                /\ c \in closed'
                /\ \A r \in DOMAIN rooms' : c \notin rooms'[r]
                /\ inbox'[c] = inbox[c]
                /\ Submitted => log'[Len(log')].sender # c
      ]_vars

\* ------------------------------------------------------------------------
\* C12: within one room every member receives the relayed design-updates in
\* the order in which the server handled them.
\* ------------------------------------------------------------------------
C12_ReceivedInSubmissionOrder ==
    \A c \in ConnIds : \A i, j \in 1..Len(inbox[c]) :
        (i < j /\ inbox[c][i].data.projectId = inbox[c][j].data.projectId)
            => inbox[c][i].emit < inbox[c][j].emit

\* a member got two updates of one room that came from two different senders
C12_Witness ==
    \E c \in ConnIds :
        /\ Len(inbox[c]) = 2
        /\ inbox[c][1].data.projectId = inbox[c][2].data.projectId
        /\ log[inbox[c][1].emit].sender # log[inbox[c][2].emit].sender

C14_RejectionToSenderOnly ==
    [][ SubmittedByNonMember =>
          LET e == log'[Len(log')]
          IN  /\ e.sender \in sockets'
              /\ sids'[e.sender] = sids[e.sender]
              /\ \A m \in ConnIds \ {e.sender} : inbox'[m] = inbox[m]
              /\ e.reply = "NotInRoom"
      ]_vars

\* ------------------------------------------------------------------------
\* C15: when the send to one member fails during a broadcast, the other
\* members of the room that are not stale, except the sender, still receive
\* the update, and the sender receives no error.
\* ------------------------------------------------------------------------
C15_FanOutNotAborted ==
    \A i \in LogIdx :
        log[i].failed # {} =>
            /\ log[i].got = (log[i].members \ {log[i].sender}) \ log[i].failed
            /\ \A m \in (log[i].members \ {log[i].sender}) \ log[i].failed :
                  \E k \in 1..Len(inbox[m]) : inbox[m][k].emit = i
            /\ log[i].reply = "none"

\* a broadcast of a member in which one send failed and another arrived
C15_Witness ==
    \E i \in LogIdx :
        /\ ByMember(log[i])
        /\ log[i].failed # {}
        /\ \E m \in log[i].got : \E k \in 1..Len(inbox[m]) : inbox[m][k].emit = i

\* ------------------------------------------------------------------------
\* C16: a member whose transport has gone stale is removed from its room by
\* the send failure that detects it: after a broadcast in which the send to
\* M failed, M is in no member set.
\* ------------------------------------------------------------------------
C16_StaleMemberReaped ==
    [][ Submitted =>
          \A m \in log'[Len(log')].failed :
              \A r \in DOMAIN rooms' : m \notin rooms'[r]
      ]_vars

\* ------------------------------------------------------------------------
\* C17: when a connection joins a room, every connection that was already a
\* member of it is sent member-joined {roomId, connectionId}.
\* ------------------------------------------------------------------------
C17_MemberJoinedNotified ==
    [][ \A c \in ConnIds, r \in ProjectIds :
          (c \in Members(rooms', r) /\ c \notin Members(rooms, r))
              => \A m \in Members(rooms, r) : Notified(m, "member-joined", r, c)
      ]_vars

\* ------------------------------------------------------------------------
\* C18: when a member of a room disconnects, every remaining member is sent
\* member-left {roomId, connectionId} and the room has exactly one member
\* fewer.
\* ------------------------------------------------------------------------
C18_MemberLeftNotified ==
    [][ \A c \in ConnIds, r \in ProjectIds :
          (c \in Members(rooms, r) /\ c \notin Members(rooms', r))
              => /\ Cardinality(Members(rooms', r)) = Cardinality(Members(rooms, r)) - 1
                 /\ \A m \in Members(rooms', r) : Notified(m, "member-left", r, c)
      ]_vars

\* ------------------------------------------------------------------------
\* C19: the relay forwards the payload unmodified: the payload every receiver
\* gets is the payload the sender submitted.
\* ------------------------------------------------------------------------
C19_PayloadUnmodified ==
    /\ \A i \in LogIdx : log[i].msg.payload = log[i].sent.payload
    /\ \A c \in ConnIds : \A k \in 1..Len(inbox[c]) :
          inbox[c][k].data.payload = log[inbox[c][k].emit].sent.payload

\* one client has received two updates with different payloads
C19_Witness ==
    \E c \in ConnIds :
        /\ Len(inbox[c]) = 2
        /\ inbox[c][1].data.payload # inbox[c][2].data.payload

Range(q) == {q[i] : i \in DOMAIN q}

RemoveAt(q, i) == SubSeq(q, 1, i - 1) \o SubSeq(q, i + 1, Len(q))

\* the ids of S as a list, by updatedAt in the given order
RECURSIVE SortKeys(_, _)
SortKeys(S, order) ==
    IF S = {} THEN <<>>
    ELSE LET m == IF order = "asc" THEN CHOOSE k \in S : \A j \in S : k <= j
                                   ELSE CHOOSE k \in S : \A j \in S : k >= j
         IN  <<m>> \o SortKeys(S \ {m}, order)

Matches(k, f) == f = "" \/ Category(k) = f

\* GET /api/projects-crud?sortBy=..&sortOrder=..&category=..: the stored
\* projects that match, sorted
ServerList(q) == SortKeys({k \in db : Matches(k, q.category)}, q.sortOrder)

\* applyFiltersAndSort: the effect that follows every render in which
\* projects, filters or the sort settings changed
ApplyFiltersAndSort(ps, f, order) ==
    SortKeys({k \in Range(ps) : Matches(k, f)}, order)

\* a toggle that adds the id without looking whether it is selected
ToggleAppend(prev, id) == Append(prev, id)

\* handleSelectProject's updater: prev.includes(id) ? prev.filter(..) : [...prev, id]
ToggleSelected(prev, id) ==
    IF id \in Range(prev) THEN SelectSeq(prev, LAMBDA x : x # id)
                          ELSE Append(prev, id)

\* handleSelectAll: compares the two lengths, nothing else
SelectAllResult(sel, filtered) ==
    IF Len(sel) = Len(filtered) THEN <<>> ELSE filtered

\* the id the server gives the next project it creates
FreshKeys == ProjectKeys \ (db \cup gone)

NextKey == CHOOSE k \in FreshKeys : \A j \in FreshKeys : k <= j

\* requests of the Dashboard that have not settled
Pending == Len(fetches) + Len(ops)

\* what a Dashboard action leaves alone outside the Dashboard
dashFrame == <<relayVars, pageFetches, sketchVars, canvasVars, viewerVars, lastEvent>>

\* category <select> onChange: setFilters({...filters, category}); the new
\* filters object re-runs both effects: a list request is sent with the new
\* query and the displayed list is filtered again
SetCategoryFilter(f) ==
    /\ Pending < MaxPending
    /\ filters' = f
    /\ fetches' = Append(fetches, Query(f, sortOrder))
    /\ filteredProjects' = ApplyFiltersAndSort(projects, f, sortOrder)
    /\ UNCHANGED <<db, gone, projects, selectedProjects, bulkAction, sortOrder,
                   ops, toast, loading>>
    /\ UNCHANGED dashFrame

\* sort order button: setSortOrder(sortOrder === 'asc' ? 'desc' : 'asc')
ToggleSortOrder ==
    LET o == IF sortOrder = "asc" THEN "desc" ELSE "asc"
    IN  /\ Pending < MaxPending
        /\ sortOrder' = o
        /\ fetches' = Append(fetches, Query(filters, o))
        /\ filteredProjects' = ApplyFiltersAndSort(projects, filters, o)
        /\ UNCHANGED <<db, gone, projects, selectedProjects, bulkAction, filters,
                       ops, toast, loading>>
        /\ UNCHANGED dashFrame

\* a list request that keeps loading set when it fails (setLoading(false)
\* at the end of the try block)
LoadingAfterTryOnly(was, outcome) == IF outcome = "ok" THEN FALSE ELSE was

\* fetchDashboardData ... finally { setLoading(false) }
LoadingAfter(was, outcome) == FALSE

\* fetchDashboardData after its await, request i answered: the response is
\* stored whatever has been requested since
FetchSucceed(i) ==
    /\ i \in DOMAIN fetches
    /\ projects' = ServerList(fetches[i])
    /\ filteredProjects' = ApplyFiltersAndSort(projects', filters, sortOrder)
    /\ loading' = [loading EXCEPT !["Dashboard"] = LoadingAfter(@, "ok")]
    /\ fetches' = RemoveAt(fetches, i)
    /\ UNCHANGED <<db, gone, selectedProjects, bulkAction, filters, sortOrder,
                   ops, toast>>
    /\ UNCHANGED dashFrame

\* fetchDashboardData, request i failed: catch toasts, finally clears loading
FetchFail(i) ==
    /\ i \in DOMAIN fetches
    /\ toast' = "error"
    /\ loading' = [loading EXCEPT !["Dashboard"] = LoadingAfter(@, "failed")]
    /\ fetches' = RemoveAt(fetches, i)
    /\ UNCHANGED <<db, gone, projects, filteredProjects, selectedProjects,
                   bulkAction, filters, sortOrder, ops>>
    /\ UNCHANGED dashFrame

\* a handler waiting for its request: what it was asked and the `projects`
\* and `selectedProjects` of the render it was created in (<<>> where the
\* handler does not read the selection)
PendingOp(kind, arg, sel) ==
    [kind |-> kind, arg |-> arg, projects |-> projects, selected |-> sel]

\* handleCreateProject (form submit) and handleDuplicateProject(projectId),
\* up to the await of the POST
HandleCreateProject ==
    /\ Pending < MaxPending
    /\ ops' = Append(ops, PendingOp("create", 0, <<>>))
    /\ UNCHANGED <<db, gone, projects, filteredProjects, selectedProjects,
                   bulkAction, filters, sortOrder, fetches, toast, loading>>
    /\ UNCHANGED dashFrame

HandleDuplicateProject(projectId) ==
    /\ projectId \in Range(filteredProjects)
    /\ Pending < MaxPending
    /\ ops' = Append(ops, PendingOp("duplicate", projectId, <<>>))
    /\ UNCHANGED <<db, gone, projects, filteredProjects, selectedProjects,
                   bulkAction, filters, sortOrder, fetches, toast, loading>>
    /\ UNCHANGED dashFrame

\* the two handlers after the await: the new project is put in front of the
\* list the handler closed over; a duplicate of a project that is gone fails
CreateSettle(i, ok) ==
    /\ i \in DOMAIN ops
    /\ ops[i].kind \in {"create", "duplicate"}
    /\ ok => /\ FreshKeys # {}
             /\ ops[i].kind = "duplicate" => ops[i].arg \in db
    /\ IF ok
       THEN /\ db' = db \cup {NextKey}
            /\ projects' = <<NextKey>> \o ops[i].projects
            /\ toast' = "success"
       ELSE /\ toast' = "error"
            /\ UNCHANGED <<db, projects>>
    /\ filteredProjects' = ApplyFiltersAndSort(projects', filters, sortOrder)
    /\ ops' = RemoveAt(ops, i)
    /\ UNCHANGED <<gone, selectedProjects, bulkAction, filters, sortOrder,
                   fetches, loading>>
    /\ UNCHANGED dashFrame

\* handleDeleteProject(projectId), confirmation accepted, up to the await of
\* the DELETE (a declined confirmation does nothing)
HandleDeleteProject(projectId) ==
    /\ projectId \in Range(filteredProjects)
    /\ Pending < MaxPending
    /\ ops' = Append(ops, PendingOp("delete", projectId, <<>>))
    /\ UNCHANGED <<db, gone, projects, filteredProjects, selectedProjects,
                   bulkAction, filters, sortOrder, fetches, toast, loading>>
    /\ UNCHANGED dashFrame

\* handleDeleteProject after the await: the project is filtered out of the
\* list the handler closed over; selectedProjects is not touched
DeleteSettle(i, ok) ==
    /\ i \in DOMAIN ops
    /\ ops[i].kind = "delete"
    /\ ok => ops[i].arg \in db
    /\ IF ok
       THEN /\ db' = db \ {ops[i].arg}
            /\ gone' = gone \cup {ops[i].arg}
            /\ projects' = SelectSeq(ops[i].projects, LAMBDA x : x # ops[i].arg)
            /\ toast' = "success"
       ELSE /\ toast' = "error"
            /\ UNCHANGED <<db, gone, projects>>
    /\ filteredProjects' = ApplyFiltersAndSort(projects', filters, sortOrder)
    /\ ops' = RemoveAt(ops, i)
    /\ UNCHANGED <<selectedProjects, bulkAction, filters, sortOrder, fetches, loading>>
    /\ UNCHANGED dashFrame

\* bulk action <select>; the bar is rendered while something is selected
SetBulkAction(a) ==
    /\ selectedProjects # <<>>
    /\ a # bulkAction
    /\ bulkAction' = a
    /\ UNCHANGED <<db, gone, projects, filteredProjects, selectedProjects,
                   filters, sortOrder, fetches, ops, toast, loading>>
    /\ UNCHANGED dashFrame

\* handleBulkAction up to its await.  The button is rendered while something
\* is selected and enabled while an action is chosen, so the two branches for
\* an empty selection and for no action are never taken.  'delete' asks for
\* confirmation: declined, the handler goes straight to setBulkAction('').
HandleBulkAction(confirmed) ==
    /\ selectedProjects # <<>>
    /\ bulkAction # ""
    /\ IF bulkAction = "delete" /\ ~confirmed
       THEN /\ bulkAction' = ""
            /\ UNCHANGED ops
       ELSE /\ Pending < MaxPending
            /\ ops' = Append(ops, PendingOp(IF bulkAction = "delete" THEN "delete-selected" ELSE "archive", 0, selectedProjects))
            /\ UNCHANGED bulkAction
    /\ UNCHANGED <<db, gone, projects, filteredProjects, selectedProjects,
                   filters, sortOrder, fetches, toast, loading>>
    /\ UNCHANGED dashFrame

\* a bulk handler whose catch block also drops the selection
SelectionAfterBulkFailureCleared(sel) == <<>>

\* catch (error) { toast.error(...) }: the selection is not touched
SelectionAfterBulkFailure(sel) == sel

\* handleBulkAction after the await
BulkSettle(i, ok) ==
    /\ i \in DOMAIN ops
    /\ ops[i].kind \in {"delete-selected", "archive"}
    /\ IF ok
       THEN /\ IF ops[i].kind = "archive"
               THEN /\ projects' = ops[i].projects
                    /\ toast' = "success"
                    /\ UNCHANGED <<db, gone>>
               ELSE /\ db' = db \ Range(ops[i].selected)
                    /\ gone' = gone \cup (db \cap Range(ops[i].selected))
                    /\ projects' = SelectSeq(ops[i].projects,
                                     LAMBDA x : x \notin Range(ops[i].selected))
                    /\ toast' = "success"
            /\ selectedProjects' = <<>>
       ELSE /\ toast' = "error"
            /\ selectedProjects' = SelectionAfterBulkFailure(selectedProjects)
            /\ UNCHANGED <<db, gone, projects>>
    /\ bulkAction' = ""
    /\ filteredProjects' = ApplyFiltersAndSort(projects', filters, sortOrder)
    /\ ops' = RemoveAt(ops, i)
    /\ UNCHANGED <<filters, sortOrder, fetches, loading>>
    /\ UNCHANGED dashFrame

\* checkbox of a displayed project
HandleSelectProject(projectId) ==
    /\ projectId \in Range(filteredProjects)
    /\ selectedProjects' = ToggleSelected(selectedProjects, projectId)
    /\ UNCHANGED <<db, gone, projects, filteredProjects, bulkAction, filters,
                   sortOrder, fetches, ops, toast, loading>>
    /\ UNCHANGED dashFrame

\* the Select All checkbox, rendered while the displayed list is not empty
HandleSelectAll ==
    /\ filteredProjects # <<>>
    /\ selectedProjects' = SelectAllResult(selectedProjects, filteredProjects)
    /\ UNCHANGED <<db, gone, projects, filteredProjects, bulkAction, filters,
                   sortOrder, fetches, ops, toast, loading>>
    /\ UNCHANGED dashFrame

\* The Dashboard is followed in four specifications, each with the handlers
\* one group of properties is about; the handlers are the same in all four.

\* the list and its requests: filter and sort changes, responses in any
\* order, and the checkboxes over the displayed list
NextList ==
    \/ \E f \in CategoryFilters : SetCategoryFilter(f)
    \/ ToggleSortOrder
    \/ \E i \in 1..MaxPending : FetchSucceed(i)
    \/ \E i \in 1..MaxPending : FetchFail(i)
    \/ \E k \in ProjectKeys : HandleSelectProject(k)
    \/ HandleSelectAll

SpecList == Init /\ [][NextList]_vars

\* the handlers that change the list: create, duplicate, delete
NextHandlers ==
    \/ \E i \in 1..MaxPending : FetchSucceed(i)
    \/ \E i \in 1..MaxPending : FetchFail(i)
    \/ HandleCreateProject
    \/ \E k \in ProjectKeys : HandleDuplicateProject(k)
    \/ \E i \in 1..MaxPending, ok \in BOOLEAN : CreateSettle(i, ok)
    \/ \E k \in ProjectKeys : HandleDeleteProject(k)
    \/ \E i \in 1..MaxPending, ok \in BOOLEAN : DeleteSettle(i, ok)

SpecHandlers == Init /\ [][NextHandlers]_vars

\* the selection: checkboxes, Select All, bulk actions, with the single
\* delete and the filter change that alter the list under it
NextSelection ==
    \/ \E f \in CategoryFilters : SetCategoryFilter(f)
    \/ \E i \in 1..MaxPending : FetchSucceed(i)
    \/ \E i \in 1..MaxPending : FetchFail(i)
    \/ \E k \in ProjectKeys : HandleDeleteProject(k)
    \/ \E i \in 1..MaxPending, ok \in BOOLEAN : DeleteSettle(i, ok)
    \/ \E a \in BulkActions : SetBulkAction(a)
    \/ \E confirmed \in BOOLEAN : HandleBulkAction(confirmed)
    \/ \E i \in 1..MaxPending, ok \in BOOLEAN : BulkSettle(i, ok)
    \/ \E k \in ProjectKeys : HandleSelectProject(k)
    \/ HandleSelectAll

SpecSelection == Init /\ [][NextSelection]_vars

\* the bulk actions over a list loaded once
NextBulk ==
    \/ \E i \in 1..MaxPending : FetchSucceed(i)
    \/ \E i \in 1..MaxPending : FetchFail(i)
    \/ \E a \in BulkActions : SetBulkAction(a)
    \/ \E confirmed \in BOOLEAN : HandleBulkAction(confirmed)
    \/ \E i \in 1..MaxPending, ok \in BOOLEAN : BulkSettle(i, ok)
    \/ \E k \in ProjectKeys : HandleSelectProject(k)
    \/ HandleSelectAll

SpecBulk == Init /\ [][NextBulk]_vars

\* ========================================================================
\* Client: SimpleDrawingCanvas (src/unnamed/part_001) inside SketchEditor
\* (src/unnamed/part_003), which DesignPage mounts as a modal
\*
\* The canvas is a row of cells; a stroke paints (pen) or wipes (eraser) the
\* cell under the pointer.  The editor stays on its 'sketch' tab.
\* ========================================================================

Tools == {"pen", "eraser"}

\* what a canvas or editor action leaves alone
sketchFrame == <<relayVars, dashVars, pageVars, viewerVars>>

\* a mouse-down handler that ignores readOnly
StartsDrawingAlways(ro) == TRUE

\* startDrawing: if (readOnly) return; setIsDrawing(true)
StartsDrawing(ro) == ~ro

\* onMouseDown={startDrawing}
StartDrawing(pos) ==
    /\ showSketchEditor
    /\ lastEvent' = "canvas-mousedown"
    /\ isDrawing' = IF StartsDrawing(canvasReadOnly) THEN TRUE ELSE isDrawing
    /\ UNCHANGED <<canvasReadOnly, selectedTool, ink, sketchVars>>
    /\ UNCHANGED sketchFrame

\* onMouseMove={draw}: if (!isDrawing || readOnly) return; then a stroke to
\* the pointer with the pen, or with destination-out for the eraser
Draw(pos) ==
    /\ showSketchEditor
    /\ lastEvent' = "canvas-mousemove"
    /\ ink' = IF ~isDrawing \/ canvasReadOnly THEN ink
              ELSE IF selectedTool = "pen" THEN ink \cup {pos}
              ELSE ink \ {pos}
    /\ UNCHANGED <<canvasReadOnly, isDrawing, selectedTool, sketchVars>>
    /\ UNCHANGED sketchFrame

\* onMouseUp / onMouseLeave={stopDrawing}
StopDrawing ==
    /\ showSketchEditor
    /\ lastEvent' = "canvas-mouseup"
    /\ isDrawing' = FALSE
    /\ UNCHANGED <<canvasReadOnly, selectedTool, ink, sketchVars>>
    /\ UNCHANGED sketchFrame

\* clearCanvas: if (readOnly) return; ctx.clearRect(...)
ClearCanvas ==
    /\ showSketchEditor
    /\ lastEvent' = "canvas-clear"
    /\ ink' = IF canvasReadOnly THEN ink ELSE {}
    /\ UNCHANGED <<canvasReadOnly, isDrawing, selectedTool, sketchVars>>
    /\ UNCHANGED sketchFrame

\* a tool button of the toolbar, which is rendered when not readOnly
SelectTool(t) ==
    /\ showSketchEditor
    /\ ~canvasReadOnly
    /\ t # selectedTool
    /\ lastEvent' = "canvas-tool"
    /\ selectedTool' = t
    /\ UNCHANGED <<canvasReadOnly, isDrawing, ink, sketchVars>>
    /\ UNCHANGED sketchFrame

\* handleSketchSave(canvasData) up to its await: setLoading(true) and the PUT
\* with the sketch built from canvasData
HandleSketchSave(canvasData) ==
    /\ Len(saves) < MaxPending
    /\ sketchLoading' = TRUE
    /\ saves' = Append(saves, canvasData)
    /\ UNCHANGED <<showSketchEditor, sketchData>>

\* the toolbar's Save button: saveCanvas reads the canvas and calls onSave,
\* which is handleSketchSave; the button has no disabled attribute
SaveCanvas ==
    /\ showSketchEditor
    /\ ~canvasReadOnly
    /\ HandleSketchSave(CanvasData(ink))
    /\ lastEvent' = "canvas-save"
    /\ UNCHANGED canvasVars
    /\ UNCHANGED sketchFrame

\* the footer's 'Save Sketch' button, disabled={loading}: it saves again the
\* canvas of the sketch as last stored
FooterSave ==
    /\ showSketchEditor
    /\ ~sketchLoading
    /\ HandleSketchSave(sketchData)
    /\ UNCHANGED <<canvasVars, lastEvent>>
    /\ UNCHANGED sketchFrame

\* handleSketchSave after the await.  On success the sketch is stored and
\* onSave closes the modal (DesignPage: setShowSketchEditor(false)); finally
\* clears loading, whatever else is still in flight.  Once the editor is
\* unmounted its state setters do nothing.
SaveSettle(i, ok) ==
    /\ i \in DOMAIN saves
    /\ saves' = RemoveAt(saves, i)
    /\ IF showSketchEditor
       THEN /\ sketchLoading' = FALSE
            /\ sketchData' = IF ok THEN saves[i] ELSE sketchData
            /\ showSketchEditor' = ~ok
       ELSE UNCHANGED <<showSketchEditor, sketchLoading, sketchData>>
    /\ UNCHANGED <<canvasVars, lastEvent>>
    /\ UNCHANGED sketchFrame

\* the Close buttons: onClose={() => setShowSketchEditor(false)}
CloseEditor ==
    /\ showSketchEditor
    /\ showSketchEditor' = FALSE
    /\ UNCHANGED <<sketchLoading, sketchData, saves, canvasVars, lastEvent>>
    /\ UNCHANGED sketchFrame

\* the editor opened on a design without a stored sketch or with one
StoredSketches == {NoSketch, CanvasData({1})}

InitSketch ==
    /\ RelayInit
    /\ DashInit
    /\ PageInit
    /\ \E stored \in StoredSketches : SketchInit(stored)
    /\ CanvasInit(FALSE)
    /\ ViewerInit(FALSE)
    /\ lastEvent = "none"

NextSketch ==
    \/ \E pos \in Cells : StartDrawing(pos)
    \/ \E pos \in Cells : Draw(pos)
    \/ StopDrawing
    \/ ClearCanvas
    \/ \E t \in Tools : SelectTool(t)
    \/ SaveCanvas
    \/ FooterSave
    \/ \E i \in 1..MaxPending, ok \in BOOLEAN : SaveSettle(i, ok)
    \/ CloseEditor

SpecSketch == InitSketch /\ [][NextSketch]_vars

\* ========================================================================
\* Client: Simple3DViewer (src/unnamed/part_004)
\*
\* Angles are in degrees; the pointer moves in steps of two pixels, half a
\* degree per pixel.  The zoom factor is kept in hundredths and its products
\* are rounded down.
\* ========================================================================

viewerFrame == <<relayVars, dashVars, pageVars, sketchVars, canvasVars>>

\* handleMouseDown: if (readOnly) return; setIsDragging(true); ...
HandleMouseDown(cx, cy) ==
    /\ lastEvent' = "viewer-mousedown"
    /\ IF ~viewerReadOnly
       THEN /\ isDragging' = TRUE
            /\ dragStart' = [x |-> cx, y |-> cy]
       ELSE UNCHANGED <<isDragging, dragStart>>
    /\ UNCHANGED <<viewerReadOnly, rotation, zoom>>
    /\ UNCHANGED viewerFrame

\* handleMouseMove: if (!isDragging || readOnly) return; the rotation turns
\* by half the pointer's movement since the last event
HandleMouseMove(cx, cy) ==
    LET turned == [x |-> rotation.x + (cy - dragStart.y) \div 2,
                   y |-> rotation.y + (cx - dragStart.x) \div 2]
    IN  /\ lastEvent' = "viewer-mousemove"
        /\ IF ~isDragging \/ viewerReadOnly
           THEN UNCHANGED <<rotation, dragStart>>
           ELSE /\ turned.x \in AnglesX
                /\ turned.y \in AnglesY
                /\ rotation' = turned
                /\ dragStart' = [x |-> cx, y |-> cy]
        /\ UNCHANGED <<viewerReadOnly, zoom, isDragging>>
        /\ UNCHANGED viewerFrame

\* onMouseUp / onMouseLeave={handleMouseUp}
HandleMouseUp ==
    /\ lastEvent' = "viewer-mouseup"
    /\ isDragging' = FALSE
    /\ UNCHANGED <<viewerReadOnly, rotation, zoom, dragStart>>
    /\ UNCHANGED viewerFrame

\* Math.max(0.1, Math.min(3, prev * delta)), delta 0.9 for deltaY > 0, else 1.1
Zoomed(prev, deltaY) ==
    LET scaled == IF deltaY > 0 THEN (prev * 9) \div 10 ELSE (prev * 11) \div 10
        capped == IF scaled > ZoomMax THEN ZoomMax ELSE scaled
    IN  IF capped < ZoomMin THEN ZoomMin ELSE capped

\* handleWheel: if (readOnly) return; setZoom(prev => ...)
HandleWheel(deltaY) ==
    /\ lastEvent' = "viewer-wheel"
    /\ IF ~viewerReadOnly
       THEN /\ Zoomed(zoom, deltaY) \in ZoomRange
            /\ zoom' = Zoomed(zoom, deltaY)
       ELSE UNCHANGED zoom
    /\ UNCHANGED <<viewerReadOnly, rotation, isDragging, dragStart>>
    /\ UNCHANGED viewerFrame

\* the Reset View button, rendered in read-only mode too:
\* setRotation({ x: 20, y: 45 }); setZoom(1)
ResetView ==
    /\ lastEvent' = "viewer-reset"
    /\ rotation' = [x |-> 20, y |-> 45]
    /\ zoom' = 100
    /\ UNCHANGED <<viewerReadOnly, isDragging, dragStart>>
    /\ UNCHANGED viewerFrame

\* the canvas and the viewer mounted with either value of readOnly
InitReadOnly ==
    /\ RelayInit
    /\ DashInit
    /\ PageInit
    /\ SketchInit(NoSketch)
    /\ \E ro \in BOOLEAN : CanvasInit(ro)
    /\ \E ro \in BOOLEAN : ViewerInit(ro)
    /\ lastEvent = "none"

WheelDeltas == {-100, 100}

NextReadOnly ==
    \/ \E pos \in Cells : StartDrawing(pos)
    \/ \E pos \in Cells : Draw(pos)
    \/ StopDrawing
    \/ ClearCanvas
    \/ \E t \in Tools : SelectTool(t)
    \/ \E cx \in Coords, cy \in Coords : HandleMouseDown(cx, cy)
    \/ \E cx \in Coords, cy \in Coords : HandleMouseMove(cx, cy)
    \/ HandleMouseUp
    \/ \E d \in WheelDeltas : HandleWheel(d)
    \/ ResetView

SpecReadOnly == InitReadOnly /\ [][NextReadOnly]_vars

\* ========================================================================
\* Client: the loading flag of the pages
\*
\* ProjectPage (src/ProfilePage.js), DesignPage (src/unnamed/part_002) and
\* EnhancedComments (src/EnhancedComments.js) load like the Dashboard: the
\* flag starts true, the fetch function ends with finally { setLoading(false) }
\* and nothing calls setLoading(true).  For these three only the number of
\* fetches in flight is followed.
\* ========================================================================

pageFrame == <<relayVars, sketchVars, canvasVars, viewerVars, lastEvent>>

\* a later fetch: a filter or sort change (ProjectPage, EnhancedComments), or
\* onCommentUpdate (DesignPage).  The fetch function does not touch loading
\* before its await.
PageFetch(p) ==
    /\ p \in OtherPages
    /\ pageFetches[p] < MaxPending
    /\ pageFetches' = [pageFetches EXCEPT ![p] = @ + 1]
    /\ UNCHANGED <<loading, dashVars>>
    /\ UNCHANGED pageFrame

\* a fetch settles: try or catch, then finally
PageSettle(p, outcome) ==
    /\ p \in OtherPages
    /\ pageFetches[p] > 0
    /\ pageFetches' = [pageFetches EXCEPT ![p] = @ - 1]
    /\ loading' = [loading EXCEPT ![p] = LoadingAfter(@, outcome)]
    /\ UNCHANGED dashVars
    /\ UNCHANGED pageFrame

Outcomes == {"ok", "failed"}

NextPages ==
    \/ \E f \in CategoryFilters : SetCategoryFilter(f)
    \/ \E i \in 1..MaxPending : FetchSucceed(i)
    \/ \E i \in 1..MaxPending : FetchFail(i)
    \/ \E p \in OtherPages : PageFetch(p)
    \/ \E p \in OtherPages, outcome \in Outcomes : PageSettle(p, outcome)

\* every HTTP request settles: the browser resolves or rejects it
RequestsSettle ==
    /\ WF_vars(\E i \in 1..MaxPending : FetchSucceed(i) \/ FetchFail(i))
    /\ \A p \in OtherPages : WF_vars(\E outcome \in Outcomes : PageSettle(p, outcome))

SpecPages == Init /\ [][NextPages]_vars /\ RequestsSettle

\* ------------------------------------------------------------------------
\* Properties of the Dashboard
\* ------------------------------------------------------------------------

\* C21: once every list request has completed (none of them with an error),
\* the list shown is the data the server returns for the filter and sort
\* values now set, whatever order the responses arrived in.  The list shown
\* is filteredProjects, computed from `projects`: it is wrong only when
\* `projects` is.
C21_LatestResponseShown ==
    (fetches = <<>> /\ toast # "error") =>
        filteredProjects = ServerList(Query(filters, sortOrder))

\* C22: once no handler and no list request is pending, no project whose
\* delete succeeded is in `projects`, and every stored project that a create
\* or duplicate added is in it.
C22_NoLostUpdate ==
    Pending = 0 =>
        /\ gone \cap Range(projects) = {}
        /\ (db \ StoredProjects) \subseteq Range(projects)

\* C23: every id in selectedProjects is the id of a project in `projects`.
C23_SelectionWithinProjects == Range(selectedProjects) \subseteq Range(projects)

\* C24: a Select All step clears the selection when the selected ids are
\* exactly the ids of the displayed (filtered) projects, and otherwise makes
\* the selection exactly that set.
C24_SelectAllExact ==
    [][HandleSelectAll =>
          IF Range(selectedProjects) = Range(filteredProjects)
          THEN selectedProjects' = <<>>
          ELSE Range(selectedProjects') = Range(filteredProjects)]_vars

\* two selections with the same ids, each as often
SameSelection(a, b) == Range(a) = Range(b) /\ Len(a) = Len(b)

BulkFailed ==
    /\ toast' = "error"
    /\ \E i \in DOMAIN ops : /\ ops[i].kind \in {"delete-selected", "archive"}
                             /\ ops' = RemoveAt(ops, i)

\* a step in which the user declines the confirmation of the bulk delete
BulkDeclined == bulkAction = "delete" /\ HandleBulkAction(FALSE)

\* C26: a step in which a bulk request fails, or in which the bulk-delete
\* confirmation is declined, leaves the list, the displayed list and the
\* selection as they are and sets bulkAction to ''.
C26_FailedBulkChangesNothing ==
    [][(BulkFailed \/ BulkDeclined) =>
          /\ projects' = projects
          /\ filteredProjects' = filteredProjects
          /\ selectedProjects' = selectedProjects
          /\ bulkAction' = ""]_vars

\* a bulk request has failed and the selection is still there
C26_Witness == toast = "error" /\ selectedProjects # <<>> /\ bulkAction = ""

\* ------------------------------------------------------------------------
\* Properties of the sketch editor, the canvas and the viewer
\* ------------------------------------------------------------------------

\* C27: while the SketchEditor is mounted, loading is true exactly when a
\* save request is in flight, and no more than one is in flight.
C27_LoadingWhileSaving ==
    showSketchEditor =>
        /\ sketchLoading <=> saves # <<>>
        /\ Len(saves) <= 1

ViewerPointerEvents == {"viewer-mousedown", "viewer-mousemove", "viewer-wheel"}

CanvasPointerEvents == {"canvas-mousedown", "canvas-mousemove", "canvas-clear"}

\* C28: with readOnly true, a step that delivers a mouse-down, mouse-move or
\* wheel event to the viewer leaves rotation, zoom and isDragging as they
\* are, and a step that delivers a mouse-down, a mouse-move or a Clear to
\* the canvas starts and ends with isDrawing false and leaves the canvas
\* content as it is.
C28_ReadOnlyIgnoresPointer ==
    [][/\ (viewerReadOnly /\ lastEvent' \in ViewerPointerEvents) =>
              /\ rotation' = rotation
              /\ zoom' = zoom
              /\ isDragging' = isDragging
       /\ (canvasReadOnly /\ lastEvent' \in CanvasPointerEvents) =>
              /\ ~isDrawing
              /\ ~isDrawing'
              /\ ink' = ink]_vars

\* both components read-only and a mouse-move just delivered to the canvas
C28_Witness ==
    viewerReadOnly /\ canvasReadOnly /\ lastEvent = "canvas-mousemove"

\* ------------------------------------------------------------------------
\* Properties of the loading flags
\* ------------------------------------------------------------------------

\* a step in which a fetch of page p settles
Settles(p) ==
    IF p = "Dashboard" THEN Len(fetches') < Len(fetches)
                       ELSE pageFetches'[p] < pageFetches[p]

\* C29: a point comes at which loading is false on all four pages; on each
\* page it is false after every step in which a fetch of the page settles
\* (with a response or with an error), and once false it stays false.
C29_LoadingEnds ==
    /\ <>(\A p \in Pages : ~loading[p])
    /\ [][\A p \in Pages : /\ Settles(p) => ~loading'[p]
                           /\ ~loading[p] => ~loading'[p]]_vars

\* every page has loaded and two of them have a later fetch in flight
C29_Witness ==
    /\ \A p \in Pages : ~loading[p]
    /\ fetches # <<>>
    /\ pageFetches["DesignPage"] > 0

====
